---------------------------- MODULE Spec2Model ----------------------------
(***************************************************************************)
(* Deliberation & consensus engine of the MDTeamGPT repository.            *)
(*                                                                         *)
(* The repository holds several generations of the same engine:            *)
(*   "main" : src/main.py                     (with the round-tracking     *)
(*            pool of src/MDTeamGPT_1/utils/shared_pool.py)                *)
(*   "v2"   : src/MDTeamGPT_2_update/main.py  (pool of MDTeamGPT_2_update) *)
(*   "v5"   : src/MDTeamGPT_5_NewArc/main.py                               *)
(*   v6     : src/MDTeamGPT_6_NewArc_1/agents/specialist.py                *)
(*                                                                         *)
(* Python strings are modelled as sequences of tokens.  The tokenisation   *)
(* is fine enough for every string operation the code performs on them     *)
(* (strip, split(': ', 1), substring tests, equality) to be computed on    *)
(* the tokens.  Option values are sequences of one-character tokens, so    *)
(* that difflib's ratio is computed on their characters.                   *)
(***************************************************************************)
EXTENDS Integers, Sequences, FiniteSets, TLC

(***************************************************************************)
(* Bounds of the model                                                     *)
(***************************************************************************)
MaxRounds == 2          \* largest max_rounds explored by the orchestrator

MaxSpecialists == 2     \* largest number of assigned specialists

MaxOpinions == 3        \* longest opinion list handed to the consensus check

MaxWrites == 3          \* add_statements calls on a pool written on its own

MaxApiRetries == 7      \* largest max_retries of a DeepSeekClient
MaxCases == 4           \* total_questions of a batch run
MaxBatch == 2           \* batch_size of a batch run
MaxRuns == 3            \* starts of main over one progress file

(***************************************************************************)
(* Strings                                                                 *)
(***************************************************************************)
None == <<"<None>">>    \* Python's None (no string of the program equals it)

S_EMPTY == <<>>

S_UTG == <<"Unable to generate">>

S_UPC == <<"Unable to parse choice">>

S_NVF == <<"No valid choice format found">>

S_NPC == <<"No parsable choice found">>

S_ERR == <<"Error", ":">>

S_ECG == <<"Error", ":", " ", "Could not get choice">>

S_NOVALID == <<"No valid choices provided by specialists">>

ColonSpace == <<":", " ">>

\* "{K}: {V}", the choice format of the specialists
OptStr(k, v) == <<"{", k, "}", ":", " ", "{">> \o v \o <<"}">>

\* first index at which pat occurs in s as a contiguous block, 0 if none
Find(s, pat) ==
  LET hits == {i \in 1..(Len(s) - Len(pat) + 1) :
                 \A j \in 1..Len(pat) : s[i + j - 1] = pat[j]}
  IN  IF hits = {} THEN 0 ELSE CHOOSE i \in hits : \A h \in hits : i <= h

\* Python's `pat in s`
Contains(s, pat) == Find(s, pat) # 0

\* Python's s.strip(chars)
Strip(s, chars) ==
  LET keep == {i \in 1..Len(s) : s[i] \notin chars}
  IN  IF keep = {} THEN <<>>
      ELSE LET lo == CHOOSE i \in keep : \A h \in keep : i <= h
               hi == CHOOSE i \in keep : \A h \in keep : i >= h
           IN  SubSeq(s, lo, hi)

StripWs(s) == Strip(s, {" "})

extract_key(choice_str) ==
  IF Contains(choice_str, ColonSpace)
  THEN Strip(SubSeq(choice_str, 1, Find(choice_str, ColonSpace) - 1), {" ", "{", "}"})
  ELSE None

extract_value(choice_str) ==
  Strip(SubSeq(choice_str, Find(choice_str, ColonSpace) + 2, Len(choice_str)), {" ", "{", "}"})

(***************************************************************************)
(* difflib.SequenceMatcher(None, a, b).ratio()                             *)
(***************************************************************************)
RECURSIVE RunLen(_, _, _, _, _, _)
RunLen(a, b, i, j, ahi, bhi) ==
  IF i <= ahi /\ j <= bhi /\ a[i] = b[j]
  THEN 1 + RunLen(a, b, i + 1, j + 1, ahi, bhi)
  ELSE 0

\* the longest matching block of a[alo..ahi] and b[blo..bhi]; of all the
\* longest, the one starting earliest in a, then earliest in b
find_longest_match(a, b, alo, ahi, blo, bhi) ==
  LET cands == (alo..ahi) \X (blo..bhi)
      len   == [c \in cands |-> RunLen(a, b, c[1], c[2], ahi, bhi)]
      lens  == {len[c] : c \in cands}
      k     == CHOOSE x \in lens : \A y \in lens : x >= y
      best  == {c \in cands : len[c] = k}
      bi    == CHOOSE i \in {c[1] : c \in best} : \A c \in best : i <= c[1]
      bj    == CHOOSE j \in {c[2] : c \in {d \in best : d[1] = bi}} :
                 \A c \in {d \in best : d[1] = bi} : j <= c[2]
  IN  IF cands = {} THEN [i |-> alo, j |-> blo, k |-> 0]
      ELSE [i |-> bi, j |-> bj, k |-> k]

RECURSIVE MatchTotal(_, _, _, _, _, _)
MatchTotal(a, b, alo, ahi, blo, bhi) ==
  LET m == find_longest_match(a, b, alo, ahi, blo, bhi)
  IN  IF m.k = 0 THEN 0
      ELSE m.k + MatchTotal(a, b, alo, m.i - 1, blo, m.j - 1)
               + MatchTotal(a, b, m.i + m.k, ahi, m.j + m.k, bhi)

\* the ratio 2*M/T as the fraction <<numerator, denominator>>
similar(a, b) ==
  IF Len(a) + Len(b) = 0 THEN <<1, 1>>
  ELSE <<2 * MatchTotal(a, b, 1, Len(a), 1, Len(b)), Len(a) + Len(b)>>

RECURSIVE Gcd(_, _)
Gcd(m, n) == IF n = 0 THEN m ELSE Gcd(n, m % n)

\* a common denominator of the scores (the least common multiple)
RECURSIVE CommonDen(_)
CommonDen(fs) ==
  IF fs = <<>> THEN 1
  ELSE LET d == CommonDen(Tail(fs))
       IN  (Head(fs)[2] * d) \div Gcd(Head(fs)[2], d)

RECURSIVE NumSum(_, _)
NumSum(fs, den) ==
  IF fs = <<>> THEN 0
  ELSE Head(fs)[1] * (den \div Head(fs)[2]) + NumSum(Tail(fs), den)

\* the pairs (i, j), i < j, in the order of the code's two loops
RECURSIVE PairScores(_, _, _)
PairScores(values, i, j) ==
  IF i > Len(values) THEN <<>>
  ELSE IF j > Len(values) THEN PairScores(values, i + 1, i + 2)
  ELSE <<similar(values[i], values[j])>> \o PairScores(values, i, j + 1)

\* a check against the lower threshold 0.85
AvgAboveLower(values) ==
  LET scores == PairScores(values, 1, 2)
      den    == CommonDen(scores)
  IN  100 * NumSum(scores, den) > 85 * Len(scores) * den

\* sum(similarity_scores) / len(similarity_scores) > 0.95
AvgAboveThreshold(values) ==
  LET scores == PairScores(values, 1, 2)
      den    == CommonDen(scores)
  IN  100 * NumSum(scores, den) > 95 * Len(scores) * den


(***************************************************************************)
(* Choices: the "Choice" strings a specialist's opinion can carry          *)
(***************************************************************************)
V_amox == <<"a", "m", "o", "x">>

V_cef == <<"c", "e", "f">>

C_A == OptStr("A", V_amox)

C_A2 == OptStr("A", V_amox \o <<"i">>)      \* same key as C_A, another phrasing

C_B == OptStr("B", V_cef)

\* what specialist.perform_task returns in the orchestrator runs
OrcReturned == {C_A, C_B}

\* empty text and the parse-failure texts the specialists and the
\* orchestrators produce
Sentinels == {S_EMPTY, S_UTG, S_UPC, S_NVF, S_NPC, S_ECG}

(***************************************************************************)
(* Consensus check of run_consultation                                     *)
(***************************************************************************)
\* a comparison that needs a second opinion to agree with the first
AllSameOfTwo(all_choices) ==
  /\ Len(all_choices) >= 2
  /\ \A i \in 1..Len(all_choices) : all_choices[i] = all_choices[1]

AllSame(all_choices) ==
  \A i \in 1..Len(all_choices) : all_choices[i] = all_choices[1]

Count(all_choices, c) == Cardinality({i \in 1..Len(all_choices) : all_choices[i] = c})

FirstIndex(all_choices, c) ==
  CHOOSE i \in 1..Len(all_choices) :
    all_choices[i] = c /\ \A j \in 1..(i - 1) : all_choices[j] # c

\* a vote that returns the last of the most frequent choices
majority_choice_last(all_choices) ==
  LET voted == {i \in 1..Len(all_choices) : all_choices[i] # S_EMPTY}
      top   == {i \in voted : \A j \in voted :
                   Count(all_choices, all_choices[i]) >= Count(all_choices, all_choices[j])}
      last  == CHOOSE i \in top : \A j \in top : i >= j
  IN  all_choices[last]

\* max(choice_counts.items(), key=lambda x: x[1])[0] over the non-empty
\* choices: a dict keeps insertion order and max() returns the first maximum
majority_choice_of(all_choices) ==
  LET voted == {i \in 1..Len(all_choices) : all_choices[i] # S_EMPTY}
      top   == {i \in voted : \A j \in voted :
                   Count(all_choices, all_choices[i]) >= Count(all_choices, all_choices[j])}
      first == CHOOSE i \in top : \A j \in top : i <= j
  IN  all_choices[first]

HasVotes(all_choices) == \E i \in 1..Len(all_choices) : all_choices[i] # S_EMPTY

\* max(set(all_choices), key=all_choices.count): the iteration order of a
\* set of strings is not determined by the program, so any of the most
\* frequent choices can be returned
most_common_of(all_choices) ==
  {all_choices[i] : i \in {k \in 1..Len(all_choices) : \A j \in 1..Len(all_choices) :
      Count(all_choices, all_choices[k]) >= Count(all_choices, all_choices[j])}}

keys_of(all_choices) == {extract_key(all_choices[i]) : i \in 1..Len(all_choices)}

AllKeysMatch(all_choices) ==
  Cardinality(keys_of(all_choices)) = 1 /\ None \notin keys_of(all_choices)

values_of(all_choices) == [i \in 1..Len(all_choices) |-> extract_value(all_choices[i])]

\* a verdict after which the loop is never left early
OutcomeNoBreak(brk, final, method, mc, wrote) ==
  [brk |-> FALSE, final |-> final, method |-> method, mc |-> mc, wrote |-> wrote]

Outcome(brk, final, method, mc, wrote) ==
  [brk |-> brk, final |-> final, method |-> method, mc |-> mc, wrote |-> wrote]

\* the final-round vote of src/main.py and MDTeamGPT_2_update/main.py
MajorityVote(all_choices, mc) ==
  IF HasVotes(all_choices)
  THEN Outcome(FALSE, majority_choice_of(all_choices), "majority", mc, FALSE)
  ELSE Outcome(FALSE, S_NOVALID, "no_valid", mc, FALSE)

\* src/main.py
CheckMain(all_choices, round_num, max_rounds, fo, mc) ==
  IF AllSame(all_choices)
  THEN {Outcome(TRUE, all_choices[1], "exact", mc, FALSE)}
  ELSE IF round_num = max_rounds
  THEN {MajorityVote(all_choices, mc)}
  ELSE {Outcome(FALSE, fo, "none", mc, FALSE)}

invalid_choices_v2 == {S_EMPTY, S_UPC, S_NVF, S_ERR, S_UTG}

\* src/MDTeamGPT_2_update/main.py
CheckV2(all_choices, round_num, max_rounds, fo, mc) ==
  IF \E i \in 1..Len(all_choices) : all_choices[i] \in invalid_choices_v2
  THEN {Outcome(FALSE, fo, "none", mc, FALSE)}              \* continue
  ELSE IF AllSame(all_choices) /\ all_choices[1] # S_EMPTY
  THEN {Outcome(TRUE, all_choices[1], "exact", mc, FALSE)}
  ELSE IF ~AllSame(all_choices) /\ AllKeysMatch(all_choices)
          /\ AvgAboveThreshold(values_of(all_choices))
  THEN {Outcome(TRUE, m, "similarity", mc, FALSE) : m \in most_common_of(all_choices)}
  ELSE IF round_num = max_rounds
  THEN {MajorityVote(all_choices, mc)}
  ELSE {Outcome(FALSE, fo, "none", mc, FALSE)}

invalid_choices_v5 == {S_UPC, S_NVF, S_ERR, S_UTG}

\* src/MDTeamGPT_5_NewArc/main.py
CheckV5(all_choices, round_num, max_rounds, fo, mc) ==
  IF AllSame(all_choices)
  THEN IF \E invalid \in invalid_choices_v5 : Contains(all_choices[1], invalid)
       THEN {Outcome(FALSE, fo, "none", mc, FALSE)}
       ELSE {Outcome(TRUE, all_choices[1], "exact", mc, FALSE)}
  ELSE IF AllKeysMatch(all_choices)
  THEN IF AvgAboveThreshold(values_of(all_choices))
       THEN {Outcome(TRUE, m, "similarity", mc, TRUE) : m \in most_common_of(all_choices)}
       ELSE {Outcome(FALSE, fo, "none", mc, FALSE)}
  ELSE IF HasVotes(all_choices)
  THEN IF round_num = max_rounds
       THEN {Outcome(TRUE, majority_choice_of(all_choices), "majority",
                     majority_choice_of(all_choices), TRUE)}
       ELSE {Outcome(FALSE, fo, "none", majority_choice_of(all_choices), FALSE)}
  ELSE {Outcome(FALSE, S_NOVALID, "no_valid", mc, TRUE)}

Versions == {"main", "v2", "v5"}

Check(v, all_choices, round_num, max_rounds, fo, mc) ==
  CASE v = "main" -> CheckMain(all_choices, round_num, max_rounds, fo, mc)
    [] v = "v2"   -> CheckV2(all_choices, round_num, max_rounds, fo, mc)
    [] v = "v5"   -> CheckV5(all_choices, round_num, max_rounds, fo, mc)


(***************************************************************************)
(* HistoricalSharedPool.  A Python value is tagged with its kind; a dict   *)
(* of the pool is a sequence of <<key, value>> entries in insertion order. *)
(* The key f"round {n}" is <<"round", n>>, any other key <<name>>.         *)
(***************************************************************************)
Dict(f) == [t |-> "dict", d |-> f]

List(l) == [t |-> "list", l |-> l]

Atom(a) == [t |-> "atom", a |-> a]

RoundKey(n) == <<"round", n>>

IsRoundKey(k) == Len(k) = 2 /\ k[1] = "round"

PoolIndex(entries, k) ==
  LET hits == {i \in 1..Len(entries) : entries[i][1] = k}
  IN  IF hits = {} THEN 0 ELSE CHOOSE i \in hits : TRUE

\* the value stored for (key, value) by MDTeamGPT_2_update's add_statements
MergeV2(old, new) ==
  IF old.t = "dict" /\ new.t = "dict" THEN Dict(new.d @@ old.d)
  ELSE IF old.t = "list" /\ new.t = "list" THEN List(old.l \o new.l)
  ELSE new

\* a store that puts a new key in front of the keys it holds
PutV2First(entries, k, v) ==
  LET i == PoolIndex(entries, k)
  IN  IF i = 0 THEN << <<k, v>> >> \o entries
      ELSE [entries EXCEPT ![i] = <<k, MergeV2(entries[i][2], v)>>]

PutV2(entries, k, v) ==
  LET i == PoolIndex(entries, k)
  IN  IF i = 0 THEN Append(entries, <<k, v>>)
      ELSE [entries EXCEPT ![i] = <<k, MergeV2(entries[i][2], v)>>]

\* MDTeamGPT_2_update/utils/shared_pool.py: add_statements, statements being
\* a sequence of <<key, value>>
RECURSIVE add_statements_v2(_, _)
add_statements_v2(entries, statements) ==
  IF statements = <<>> THEN entries
  ELSE add_statements_v2(PutV2(entries, Head(statements)[1], Head(statements)[2]),
                         Tail(statements))

\* a save that writes only the entry stored last
save_last_entry(entries) == SubSeq(entries, Len(entries), Len(entries))

\* HistoricalSharedPool.save_to_file: json.dump(self.pool, f) replaces the
\* content of the case's file by the whole pool
save_to_file(entries) == entries

\* MDTeamGPT_1/utils/shared_pool.py: the value stored for the round key
MergeV1(old, new) ==
  IF old.t = "list" /\ new.t = "list" THEN List(old.l \o new.l)
  ELSE IF old.t = "dict" /\ new.t = "dict" THEN Dict(new.d @@ old.d)
  ELSE List(<<old, new>>)

\* MDTeamGPT_1/utils/shared_pool.py: add_statements on a pool
\* [entries, current_round]; only the first key of statements is used.  A key
\* is "round", the integer int() reads from its second field, and the fields
\* after it, or else its text as one field.  It is taken when it starts with
\* "round " and int() reads the second field, whatever follows, and raises
\* ValueError otherwise (raised |-> TRUE)
add_statements_v1(p, statements) ==
  IF statements = <<>> THEN [entries |-> p.entries, current_round |-> p.current_round, raised |-> FALSE]
  ELSE LET k == Head(statements)[1]
           v == Head(statements)[2]
           i == PoolIndex(p.entries, k)
       IN  IF ~(k[1] = "round" /\ Len(k) >= 2)
           THEN [entries |-> p.entries, current_round |-> p.current_round, raised |-> TRUE]
           ELSE [entries |-> IF i = 0 THEN Append(p.entries, <<k, v>>)
                             ELSE [p.entries EXCEPT ![i] = <<k, MergeV1(p.entries[i][2], v)>>],
                 current_round |-> IF k[2] > p.current_round THEN k[2] ELSE p.current_round,
                 raised |-> FALSE]

\* HistoricalSharedPool._get_rounds_data (and get_all_statements of
\* MDTeamGPT_1): the rounds in the order of the pool's keys, as
\* <<round number, stored value>>
get_rounds_data(entries) ==
  LET rounds == SelectSeq(entries, LAMBDA e : IsRoundKey(e[1]))
  IN  [i \in 1..Len(rounds) |-> <<rounds[i][1][2], rounds[i][2]>>]

\* HistoricalSharedPool.get_round_statements of MDTeamGPT_2_update; [] and {}
\* are the empty sequence
get_round_statements(entries, n) ==
  LET i == PoolIndex(entries, RoundKey(n))
      round_data == IF i = 0 THEN Dict(<<>>) ELSE entries[i][2]
      Get(name) == IF name \in DOMAIN round_data.d THEN round_data.d[name] ELSE <<>>
  IN  [specialist_opinions |-> Get("specialist_opinions"),
       lead_physician_analysis |-> Get("Lead_Physician_Opinion")]

\* HistoricalSharedPool.get_all_statements of MDTeamGPT_2_update: a dict with
\* the one key "metadata"; every key of the pool is a string, so the filter
\* of _get_metadata keeps every entry, the rounds included
get_all_statements(entries) ==
  << <<<<"metadata">>, entries>> >>

\* ChainOfThoughtReviewer._history_retrieve of MDTeamGPT_2_update: the
\* specialist opinions put into the history text, each as <<round, opinions>>
history_retrieve_v2(history, is_correct) ==
  LET m == PoolIndex(history, <<"metadata">>)
      metadata == IF m = 0 THEN <<>> ELSE history[m][2]
      found == {metadata[i][1][2] : i \in {j \in 1..Len(metadata) : IsRoundKey(metadata[j][1])}}
      round_numbers == IF found = {} THEN {1} ELSE found
      last_round_num == CHOOSE n \in round_numbers : \A k \in round_numbers : k <= n
      quoted(n) == get_round_statements(metadata, n).specialist_opinions
  IN  {<<n, quoted(n)>> : n \in {k \in (IF is_correct THEN {last_round_num} ELSE round_numbers) :
                                   quoted(k) # <<>>}}

\* ChainOfThoughtReviewer._history_retrieve of MDTeamGPT_5_NewArc: the round
\* keys are looked for among the keys of history itself, and a wrong answer
\* quotes history["round"][1]
history_retrieve_v5(history, is_correct) ==
  LET found == {history[i][1][2] : i \in {j \in 1..Len(history) : IsRoundKey(history[j][1])}}
      round_numbers == IF found = {} THEN {1} ELSE found
      last_round_num == CHOOSE n \in round_numbers : \A k \in round_numbers : k <= n
      r == PoolIndex(history, <<"round">>)
      rounds == IF r = 0 THEN <<>> ELSE history[r][2]
      quoted == IF is_correct
                THEN get_round_statements(history, last_round_num).specialist_opinions
                ELSE IF 1 \in DOMAIN rounds THEN rounds[1].specialist_opinions ELSE <<>>
  IN  IF quoted = <<>> THEN {}
      ELSE {<<IF is_correct THEN last_round_num ELSE 1, quoted>>}

\* HistoricalSharedPool.__init__
InitialPool(v) ==
  IF v = "main" THEN <<>>
  ELSE << <<<<"question_id">>, Atom("case_id")>>,
          <<<<"question">>, Atom("None")>>,
          <<<<"options">>, Atom("None")>>,
          <<<<"timestamp">>, Atom("now")>>,
          <<<<"primary_care_assignment">>, Atom("None")>> >>

(***************************************************************************)
(* run_consultation of src/main.py, MDTeamGPT_2_update/main.py and         *)
(* MDTeamGPT_5_NewArc/main.py                                               *)
(***************************************************************************)
VARIABLES
  version,              \* which run_consultation runs
  max_rounds,           \* max_rounds
  pc,                   \* position in run_consultation
  round_num,            \* round_num of the for loop
  nspec,                \* len(selected_specialists)
  specialist_opinions,  \* the "Choice" of each opinion of the round, in order
  failed,               \* which opinions of the round come from the except branch
  final_opinion,        \* final_opinion
  majority_choice,      \* majority_choice (v5)
  method,               \* the branch of the consensus check that fired last
  pool,                 \* historical_pool.pool
  current_round,        \* historical_pool.current_round
  result,               \* what run_consultation returned or raised
  det,                  \* the consensus check applied to drawn inputs
  doc,                  \* SpecialistDoctor / PrimaryCareDoctor of MDTeamGPT_6_NewArc_1
  store                 \* a HistoricalSharedPool written and read on its own

orcVars == <<version, max_rounds, pc, round_num, nspec, specialist_opinions, failed,
             final_opinion, majority_choice, method, pool, current_round, result>>

vars == <<orcVars, det, doc, store>>

Idle == [pc |-> "idle"]

NoResult == [kind |-> "running"]

OrcInit ==
  /\ version \in Versions
  /\ max_rounds \in 1..MaxRounds
  /\ pc = "start"
  /\ round_num = 0
  /\ nspec = 0
  /\ specialist_opinions = <<>>
  /\ failed = {}
  /\ final_opinion = None
  /\ majority_choice = None
  /\ method = "none"
  /\ pool = InitialPool(version)
  /\ current_round = 0
  /\ result = NoResult

\* historical_pool.add_statements(statements) of the running version
PoolAdd(statements) ==
  IF version = "main"
  THEN LET r == add_statements_v1([entries |-> pool, current_round |-> current_round], statements)
       IN  /\ pool' = r.entries
           /\ current_round' = r.current_round
  ELSE /\ pool' = add_statements_v2(pool, statements)
       /\ current_round' = current_round

\* historical_pool.add_statements(initial_data)
Begin ==
  /\ UNCHANGED <<det, doc, store>>
  /\ pc = "start"
  /\ pc' = "assign"
  /\ IF version = "main" THEN UNCHANGED <<pool, current_round>>
     ELSE PoolAdd(<< <<<<"question_id">>, Atom("case_id")>>,
                     <<<<"question">>, Atom("question")>>,
                     <<<<"options">>, Atom("options")>> >>)
  /\ UNCHANGED <<version, max_rounds, round_num, nspec, specialist_opinions, failed,
                 final_opinion, majority_choice, method, result>>

\* primary_care.perform_task and the selection of the specialists; k is the
\* number of names the assignment carries
AssignSpecialists ==
  /\ UNCHANGED <<det, doc, store>>
  /\ pc = "assign"
  /\ \E k \in 0..MaxSpecialists :
       IF version = "v5" /\ k < 2
       THEN UNCHANGED orcVars                  \* while True: ask again
       ELSE /\ nspec' = IF k = 0 THEN 1 ELSE k      \* General Practitioner
            /\ pc' = "collect"
            /\ round_num' = 1
            /\ IF version = "main" THEN UNCHANGED <<pool, current_round>>
               ELSE PoolAdd(<< <<<<"primary_care_assignment">>,
                                 Dict([assigned_specialists |-> nspec'])>> >>)
            /\ UNCHANGED <<version, max_rounds, specialist_opinions, failed,
                           final_opinion, majority_choice, method, result>>

\* one pass of `for specialist in selected_specialists`: perform_task
\* returns an opinion, or raises and the except branch records the sentinel
SpecialistOpinion ==
  /\ UNCHANGED <<det, doc, store>>
  /\ pc = "collect"
  /\ Len(specialist_opinions) < nspec
  /\ \/ \E c \in OrcReturned :
          /\ specialist_opinions' = Append(specialist_opinions, c)
          /\ failed' = failed
     \/ /\ specialist_opinions' = Append(specialist_opinions, S_UTG)
        /\ failed' = failed \cup {Len(specialist_opinions) + 1}
  /\ UNCHANGED <<version, max_rounds, pc, round_num, nspec, final_opinion,
                 majority_choice, method, pool, current_round, result>>

\* historical_pool.add_statements(round_data)
StoreRound ==
  /\ UNCHANGED <<det, doc, store>>
  /\ pc = "collect"
  /\ Len(specialist_opinions) = nspec
  /\ PoolAdd(<< <<RoundKey(round_num),
                  IF version = "main" THEN List(specialist_opinions)
                  ELSE Dict([specialist_opinions |-> specialist_opinions])>> >>)
  /\ pc' = IF version = "v5" THEN "check" ELSE "lead"
  /\ UNCHANGED <<version, max_rounds, round_num, nspec, specialist_opinions, failed,
                 final_opinion, majority_choice, method, result>>

\* lead_physician.perform_task and the storing of its analysis
LeadPhysician ==
  /\ UNCHANGED <<det, doc, store>>
  /\ pc = "lead"
  /\ PoolAdd(<< <<RoundKey(round_num),
                  IF version = "main" THEN Dict([Agent_Name |-> "Lead Physician"])
                  ELSE Dict([Lead_Physician_Opinion |-> "analysis"])>> >>)
  /\ pc' = "check"
  /\ UNCHANGED <<version, max_rounds, round_num, nspec, specialist_opinions, failed,
                 final_opinion, majority_choice, method, result>>

\* all_choices = [opinion.get("Choice", "").strip() ...]
all_choices_of(opinions) == [i \in 1..Len(opinions) |-> StripWs(opinions[i])]

\* the round_result v5 stores with the verdict
RoundResult(o) ==
  << <<RoundKey(round_num), Dict([round_result |-> o.final, consensus_type |-> o.method])>> >>

\* the consensus check, and the end of the loop body: break, next round, or
\* the end of the for loop
CheckConsensus ==
  /\ UNCHANGED <<det, doc, store>>
  /\ pc = "check"
  /\ \E o \in Check(version, all_choices_of(specialist_opinions), round_num, max_rounds,
                    final_opinion, majority_choice) :
       /\ final_opinion' = o.final
       /\ majority_choice' = o.mc
       /\ method' = o.method
       /\ IF o.wrote THEN PoolAdd(RoundResult(o)) ELSE UNCHANGED <<pool, current_round>>
       /\ IF o.brk \/ round_num = max_rounds
          THEN /\ pc' = "ethics"
               /\ UNCHANGED <<round_num, specialist_opinions, failed>>
          ELSE /\ pc' = "collect"
               /\ round_num' = round_num + 1
               /\ specialist_opinions' = <<>>
               /\ failed' = {}
  /\ UNCHANGED <<version, max_rounds, nspec, result>>

\* the safety and ethics review of the final opinion
EthicsReview ==
  /\ UNCHANGED <<det, doc, store>>
  /\ pc = "ethics"
  /\ pc' = "chain"
  /\ IF version = "main" THEN UNCHANGED <<pool, current_round>>
     ELSE PoolAdd(<< <<<<"Safety_Ethics_Opinion">>,
                       Dict([Specialists_Answer |-> final_opinion])>> >>)
  /\ UNCHANGED <<version, max_rounds, round_num, nspec, specialist_opinions, failed,
                 final_opinion, majority_choice, method, result>>

\* compare_with_official_answer (v2, v5): final_opinion.lower() raises
\* AttributeError on None; then the chain-of-thought review and the return:
\* src/main.py returns "rounds": historical_pool.current_round, the two
\* others return no count of rounds
ChainReview ==
  /\ UNCHANGED <<det, doc, store>>
  /\ pc = "chain"
  /\ IF version # "main" /\ final_opinion = None
     THEN /\ pc' = "raised"
          /\ result' = [kind |-> "raised", error |-> "AttributeError"]
          /\ UNCHANGED <<pool, current_round>>
     ELSE /\ pc' = "returned"
          /\ result' = IF version = "main"
                       THEN [kind |-> "returned", final_decision |-> final_opinion,
                             rounds |-> current_round]
                       ELSE [kind |-> "returned", final_decision |-> final_opinion]
          /\ IF version = "main" THEN UNCHANGED <<pool, current_round>>
             ELSE PoolAdd(<< <<<<"Chain_Reviewer_Opinion">>,
                               Dict([Agent_Name |-> "Chain_Reviewer"])>> >>)
  /\ UNCHANGED <<version, max_rounds, round_num, nspec, specialist_opinions, failed,
                 final_opinion, majority_choice, method>>

OrcNext ==
  \/ Begin
  \/ AssignSpecialists
  \/ SpecialistOpinion
  \/ StoreRound
  \/ LeadPhysician
  \/ CheckConsensus
  \/ EthicsReview
  \/ ChainReview

Init == OrcInit /\ det = Idle /\ doc = Idle /\ store = Idle

Next == OrcNext

Spec == Init /\ [][Next]_vars

\* lastround_history, which run_consultation of MDTeamGPT_5_NewArc hands to
\* every specialist of a round after the first
lastround_history ==
  IF round_num > 1 THEN get_round_statements(pool, 1) ELSE get_round_statements(<<>>, 1)

\* what run_consultation of MDTeamGPT_5_NewArc passes to
\* specialist.perform_task besides the case: specialist_opinions, the list
\* the round is filling, is not among the arguments
perform_task_args ==
  [round_num |-> round_num, lastround_history |-> lastround_history,
   majority_choice |-> majority_choice]

\* run_consultation called with one round more than Spec explores
InitLong ==
  /\ version \in Versions
  /\ max_rounds = MaxRounds + 1
  /\ pc = "start"
  /\ round_num = 0
  /\ nspec = 0
  /\ specialist_opinions = <<>>
  /\ failed = {}
  /\ final_opinion = None
  /\ majority_choice = None
  /\ method = "none"
  /\ pool = InitialPool(version)
  /\ current_round = 0
  /\ result = NoResult
  /\ det = Idle /\ doc = Idle /\ store = Idle

SpecLong == InitLong /\ [][Next]_vars


(***************************************************************************)
(* Consensus check of MDTeamGPT_6_NewArc_1 (SpecialistDoctor).  A          *)
(* selected_option is a dict {key, value} or a plain string.               *)
(***************************************************************************)
OptDict(k, v) == [t |-> "dict", key |-> k, value |-> v]

\* Python's None among the typed values
PyNone == [t |-> "none"]

UpperLower == {<<"A", "a">>, <<"B", "b">>, <<"Z", "z">>}

Upper(s) ==
  [i \in 1..Len(s) |->
     IF \E p \in UpperLower : p[2] = s[i] THEN (CHOOSE p \in UpperLower : p[2] = s[i])[1]
     ELSE s[i]]

Lower(s) ==
  [i \in 1..Len(s) |->
     IF \E p \in UpperLower : p[1] = s[i] THEN (CHOOSE p \in UpperLower : p[1] = s[i])[2]
     ELSE s[i]]

\* SpecialistDoctor._normalize_option
normalize_option(option) ==
  IF option.t = "dict"
  THEN <<"json", Upper(StripWs(option.key)), StripWs(option.value)>>
  ELSE <<"str", Lower(StripWs(option.s))>>

\* SpecialistDoctor._check_consensus: is_consensus
check_consensus(opinions) ==
  /\ opinions # <<>>
  /\ Cardinality({normalize_option(opinions[i].selected_option) : i \in 1..Len(opinions)}) = 1

\* a conclusion that reports the option of the participant who spoke last
form_final_conclusion_last(opinions, is_consensus) ==
  IF is_consensus
  THEN [status |-> "consensus is reached",
        selected_option |-> opinions[Len(opinions)].selected_option, consensus |-> TRUE]
  ELSE [status |-> "consensus is not reached", selected_option |-> PyNone,
        consensus |-> FALSE]

\* SpecialistDoctor._form_final_conclusion: the no_opinions result is
\* assigned first and then overwritten by the if/else that follows it
form_final_conclusion(opinions, is_consensus) ==
  IF is_consensus
  THEN [status |-> "consensus is reached", selected_option |-> opinions[1].selected_option,
        consensus |-> TRUE]
  ELSE [status |-> "consensus is not reached", selected_option |-> PyNone,
        consensus |-> FALSE]

(***************************************************************************)
(* The consensus checks as pure functions of a round's opinions            *)
(***************************************************************************)
\* the choices a drawn round is made of; the two phrasings of option C have
\* the similarity ratio 20/21
DetChoices ==
  LET V_long == <<"d", "o", "x", "y", "c", "y", "c", "l", "i", "n">>
  IN  {C_A, C_A2, C_B, OptStr("C", V_long), OptStr("C", V_long \o <<"e">>),
       S_EMPTY, S_UTG, S_ECG, S_NPC}

O6_A == OptDict(<<"A">>, V_amox)

O6_B == OptDict(<<"B">>, V_cef)

\* the second option normalises to O6_A
DetOptions == {O6_A, OptDict(<<"a">>, V_amox \o <<" ">>), O6_B}

SeqsUpTo(S, lo, hi) == UNION {[1..n -> S] : n \in lo..hi}

DetInit ==
  \/ \E v \in Versions, mx \in 1..MaxRounds, cs \in SeqsUpTo(DetChoices, 1, MaxOpinions) :
       \E r \in 1..mx :
         det = [pc |-> "input", v |-> v, max |-> mx, round |-> r, choices |-> cs]
  \/ \E os \in SeqsUpTo(DetOptions, 0, MaxOpinions) :
       det = [pc |-> "input", v |-> "v6",
              opinions |-> [i \in 1..Len(os) |-> [selected_option |-> os[i]]]]

\* one consensus check of run_consultation on the drawn round
Detect ==
  /\ det.pc = "input"
  /\ det.v \in Versions
  /\ \E o \in Check(det.v, all_choices_of(det.choices), det.round, det.max, None, None) :
       det' = [pc |-> "done", v |-> det.v, max |-> det.max, round |-> det.round,
               choices |-> det.choices, out |-> o]
  /\ UNCHANGED <<orcVars, doc, store>>

\* _check_consensus and _form_final_conclusion on the drawn opinions
DetectV6 ==
  /\ det.pc = "input"
  /\ det.v = "v6"
  /\ det' = [pc |-> "done", v |-> "v6", opinions |-> det.opinions,
             consensus |-> check_consensus(det.opinions),
             conclusion |-> form_final_conclusion(det.opinions, check_consensus(det.opinions))]
  /\ UNCHANGED <<orcVars, doc, store>>

OrcIdle ==
  /\ version = "none"
  /\ max_rounds = 0
  /\ pc = "idle"
  /\ round_num = 0
  /\ nspec = 0
  /\ specialist_opinions = <<>>
  /\ failed = {}
  /\ final_opinion = None
  /\ majority_choice = None
  /\ method = "none"
  /\ pool = <<>>
  /\ current_round = 0
  /\ result = NoResult

InitDetect == DetInit /\ OrcIdle /\ doc = Idle /\ store = Idle

SpecDetect == InitDetect /\ [][Detect \/ DetectV6]_vars


(***************************************************************************)
(* MDTeamGPT_6_NewArc_1: the structured requests of SpecialistDoctor and   *)
(* PrimaryCareDoctor.  Python values carry their type in the field t.      *)
(***************************************************************************)
\* max_retries of provide_initial_opinion and _get_sequential_opinion
specialist_max_retries == 5

\* PrimaryCareDoctor(max_retries = 10)
primary_care_max_retries == 10

PyStr(s) == [t |-> "str", s |-> s]

PyDict(d) == [t |-> "dict", d |-> d]

\* {**a, **b}
DictMerge(a, b) ==
  [k \in (DOMAIN a) \cup (DOMAIN b) |-> IF k \in DOMAIN b THEN b[k] ELSE a[k]]

\* the case's options: specialist.options
O6_Z == OptDict(<<"Z">>, <<"z", "z", "z">>)

O6_KeyOnly == OptDict(<<"A">>, V_cef)

options == <<O6_A, O6_B>>

\* what call_llm can return: text that is not JSON, the api_error string of
\* DeepSeekClient.call, or a JSON object (parsed or still a string)
RespText == [t |-> "text"]

RespApiError == [t |-> "api_error"]

RespJson(d) == [t |-> "json", d |-> d]

R_INIT_A == RespJson([selected_option |-> O6_A, reasoning |-> PyStr(<<"r">>)])

R_INIT_B == RespJson([selected_option |-> O6_B, reasoning |-> PyStr(<<"r">>)])

R_KEYONLY == RespJson([selected_option |-> O6_KeyOnly, reasoning |-> PyStr(<<"r">>)])

DefendReasoning == [your_position_strengths |-> "s", others_weaknesses |-> "w"]

R_DEFEND_A ==
  RespJson([decision_type |-> "DEFEND", selected_option |-> O6_A,
            reasoning |-> PyDict(DefendReasoning)])

R_ADJUST_B ==
  RespJson([decision_type |-> "ADJUST", selected_option |-> O6_B,
            reasoning |-> PyDict([old_position_weaknesses |-> "o", new_insights |-> "n"])])

R_DEFEND_KEYONLY ==
  RespJson([decision_type |-> "DEFEND", selected_option |-> O6_KeyOnly,
            reasoning |-> PyDict(DefendReasoning)])

\* a reasoning object that itself has a selected_option entry
R_DEFEND_OVERRIDE ==
  RespJson([decision_type |-> "DEFEND", selected_option |-> O6_A,
            reasoning |-> PyDict(DictMerge(DefendReasoning, [selected_option |-> O6_Z]))])

InitialResponses == {RespText, RespApiError, R_KEYONLY, R_INIT_A, R_INIT_B, R_DEFEND_A}

SequentialResponses ==
  {RespText, RespApiError, R_DEFEND_KEYONLY, R_INIT_A, R_DEFEND_A, R_ADJUST_B, R_DEFEND_OVERRIDE}

\* a validator whose accepted value does not end the request
AcceptedLate(value) == [ok |-> FALSE, value |-> value, violation |-> <<>>]

\* what a validator returns: the value, or the tokens of the violation
Accepted(value) == [ok |-> TRUE, value |-> value, violation |-> <<>>]

Rejected(violation) == [ok |-> FALSE, value |-> PyNone, violation |-> violation]

\* the validator does not return: the exception leaves it
Raised(error) == [ok |-> FALSE, value |-> PyNone, violation |-> <<>>, raised |-> error]

\* json.loads of the api_error string gives an object with none of the fields
JsonOf(resp) == IF resp.t = "api_error" THEN [api_error |-> TRUE] ELSE resp.d

\* SpecialistDoctor._is_valid_option
is_valid_option(option, valid_options) ==
  IF option.t = "dict"
  THEN \E i \in 1..Len(valid_options) :
         /\ valid_options[i].t = "dict"
         /\ valid_options[i].key = option.key
         /\ valid_options[i].value = option.value
  ELSE \E i \in 1..Len(valid_options) : valid_options[i] = option

\* SpecialistDoctor._parse_and_validate_initial_response
parse_and_validate_initial_response(llm_response, specialist_type, opts) ==
  IF llm_response.t = "text" THEN Rejected(<<"Invalid JSON format">>)
  ELSE LET d == JsonOf(llm_response)
       IN  IF "selected_option" \notin DOMAIN d THEN Rejected(<<"Missing field: ", "selected_option">>)
           ELSE IF "reasoning" \notin DOMAIN d THEN Rejected(<<"Missing field: ", "reasoning">>)
           ELSE IF d.reasoning.t # "str" THEN Rejected(<<"Invalid type for ", "reasoning">>)
           ELSE IF ~is_valid_option(d.selected_option, opts) THEN Rejected(<<"Invalid option selected">>)
           ELSE Accepted([round |-> 1, specialist |-> specialist_type,
                          selected_option |-> d.selected_option,
                          reasoning |-> d.reasoning])

\* SpecialistDoctor._parse_and_validate_response
parse_and_validate_response(llm_response, specialist_type, opts, rnd) ==
  IF llm_response.t = "text" THEN Rejected(<<"Invalid JSON format">>)
  ELSE LET d == JsonOf(llm_response)
       IN  IF "decision_type" \notin DOMAIN d THEN Rejected(<<"Missing field: ", "decision_type">>)
           ELSE IF d.decision_type \notin {"DEFEND", "ADJUST"}
                THEN Rejected(<<"Invalid value for ", "decision_type">>)
           ELSE IF "selected_option" \notin DOMAIN d
                THEN Rejected(<<"Missing field: ", "selected_option">>)
           ELSE IF "reasoning" \notin DOMAIN d THEN Rejected(<<"Missing field: ", "reasoning">>)
           ELSE IF d.reasoning.t # "dict" THEN Rejected(<<"Invalid type for ", "reasoning">>)
           ELSE IF ~is_valid_option(d.selected_option, opts) THEN Rejected(<<"Invalid option selected">>)
           ELSE IF /\ d.decision_type = "DEFEND"
                   /\ ~({"your_position_strengths", "others_weaknesses"}
                          \subseteq DOMAIN d.reasoning.d)
                THEN Rejected(<<"decision fields missing">>)
           ELSE IF /\ d.decision_type = "ADJUST"
                   /\ ~({"old_position_weaknesses", "new_insights"}
                          \subseteq DOMAIN d.reasoning.d)
                THEN Rejected(<<"decision fields missing">>)
           ELSE Accepted(DictMerge([round |-> rnd, specialist |-> specialist_type,
                                    selected_option |-> d.selected_option,
                                    decision_type |-> d.decision_type],
                                   d.reasoning.d))

(***************************************************************************)
(* SpecialistDoctor.perform_task: the discussion of _start_discussion.     *)
(* doc.req tells whether the structured request of the specialist whose    *)
(* turn it is is open, or how the last one ended; doc.calls counts its     *)
(* generation calls.                                                       *)
(***************************************************************************)
\* the rounds of _start_discussion (max_rounds = 100 in the code)
V6Rounds == MaxRounds + 1

\* a prompt that quotes the opinions the round has gathered so far
InitialBaseSeen(i) ==
  <<"initial opinion prompt", ToString(i)>> \o [j \in 1..Len(doc.updated) |-> "opinion"]

InitialBase(i) == <<"initial opinion prompt", ToString(i)>>

RetryNote ==
  <<"Your previous response did not meet the required JSON format. Please try again.">>

SequentialPrompt(i, rnd) == <<"discussion prompt", ToString(rnd), ToString(i)>>

DefaultOpinion(i) ==
  [round |-> 1, specialist |-> i, selected_option |-> options[1],
   reasoning |-> PyStr(<<"Default after retries">>)]

FallbackOpinion(prev_opinion, rnd) ==
  DictMerge(prev_opinion,
            [round |-> rnd, decision_type |-> "FALLBACK",
             reasoning |-> PyStr(<<"Invalid response after retries">>)])

\* the fields the summary line of an opinion reads: a missing one is a KeyError
LineRaises(opinion) ==
  IF "decision_type" \notin DOMAIN opinion THEN TRUE
  ELSE IF opinion.decision_type = "DEFEND"
       THEN ~({"your_position_strengths", "others_weaknesses"} \subseteq DOMAIN opinion)
       ELSE ~({"old_position_weaknesses", "new_insights"} \subseteq DOMAIN opinion)

\* SpecialistDoctor._create_discussion_summary raises
SummaryRaises(opinions, rnd) ==
  /\ rnd # 2
  /\ \E i \in 1..Len(opinions) : LineRaises(opinions[i])

DocStart(pc0, n) ==
  [pc |-> pc0, n |-> n, round |-> 1, opinions |-> <<>>, updated |-> <<>>,
   kind |-> "none", req |-> "none", calls |-> 0, base |-> <<>>, prompt |-> <<>>,
   resp |-> RespText, violation |-> <<>>, prev_violation |-> <<>>, same |-> TRUE,
   parsed |-> PyNone, exhausted |-> {}, failed_once |-> FALSE,
   writes |-> <<>>, result |-> PyNone]

\* perform_task(primary_care_response, ...) with n entries in primary_care_choices
SdInit == \E n \in 0..MaxSpecialists : doc = DocStart("initial", n)

RetryCount == IF doc.req = "open" THEN doc.calls ELSE 0

\* _store_initial_opinion_history, _store_discussion_opinion_history and
\* PrimaryCareDoctor's storing of the accepted list: the add_statements call
\* as the log of the case keeps it; when the call raises, the except branch
\* prints the failure and returns
StoreCall(key) == [key |-> key, raised |-> store.pc = "broken"]

Turn == Len(doc.updated) + 1

\* a request whose API errors are not counted as attempts
CalledFree(kind, base, prompt, r, res, how) ==
  [doc EXCEPT !.kind = kind, !.req = IF r.t = "api_error" THEN "open" ELSE how,
              !.calls = IF r.t = "api_error" THEN RetryCount ELSE RetryCount + 1,
              !.base = base, !.prompt = prompt,
              !.resp = r, !.violation = res.violation,
              !.prev_violation = IF RetryCount = 0 THEN <<>> ELSE doc.violation,
              !.same = IF RetryCount = 0 THEN TRUE ELSE doc.same /\ r = doc.resp,
              !.parsed = res.value]

\* the request fields after one more generation call
Called(kind, base, prompt, r, res, how) ==
  [doc EXCEPT !.kind = kind, !.req = how, !.calls = RetryCount + 1, !.base = base, !.prompt = prompt,
              !.resp = r, !.violation = res.violation,
              !.prev_violation = IF RetryCount = 0 THEN <<>> ELSE doc.violation,
              !.same = IF RetryCount = 0 THEN TRUE ELSE doc.same /\ r = doc.resp,
              !.parsed = res.value]

\* one pass of the while loop of provide_initial_opinion, and what
\* _get_initial_opinions does with the opinion it returns.  Before the loop
\* provide_initial_opinion calls self.retriever.retrieve_evidence: the
\* retriever is the one run_consultation passes, unless the case is set up
\* with a SpecialistDoctor that has none (its default) or one that finds
\* nothing (the evidence only fills a paragraph of the prompt text); on None
\* the call raises and perform_task returns its error result
InitialAttempt ==
  /\ doc.pc = "initial"
  /\ Turn <= doc.n
  /\ \E r \in InitialResponses :
       LET retriever == IF "retriever" \in DOMAIN store THEN store.retriever
                        ELSE "evidence"
           prompt == IF RetryCount > 0 THEN InitialBase(Turn) \o RetryNote
                     ELSE InitialBase(Turn)
           res == IF r.t = "api_error" THEN Rejected(<<"API Error">>)
                  ELSE parse_and_validate_initial_response(r, Turn, options)
           stored(d, opinion) ==
             [d EXCEPT !.updated = Append(doc.updated, opinion),
                       !.writes = Append(doc.writes, StoreCall(<<1, Turn>>))]
       IN  doc' = IF retriever = "none"
                  THEN [doc EXCEPT !.pc = "done", !.result = [error |-> "AttributeError"]]
                  ELSE IF res.ok
                  THEN stored(Called("initial", InitialBase(Turn), prompt, r, res, "accepted"), res.value)
                  ELSE IF RetryCount + 1 = specialist_max_retries
                  THEN [stored(Called("initial", InitialBase(Turn), prompt, r, res, "exhausted"),
                               DefaultOpinion(Turn))
                          EXCEPT !.exhausted = doc.exhausted \cup {Turn},
                                 !.failed_once = TRUE]
                  ELSE Called("initial", InitialBase(Turn), prompt, r, res, "open")
  /\ UNCHANGED <<orcVars, det, store>>

\* one pass of the for loop of _get_sequential_opinion, and what
\* _conduct_sequential_discussion_round does before the request (the summary
\* of the previous round) and with the opinion it returns; a KeyError ends
\* perform_task with the error result
SequentialAttempt ==
  /\ doc.pc = "seq"
  /\ Turn <= doc.n
  /\ \E r \in SequentialResponses :
       LET prompt == SequentialPrompt(Turn, doc.round)
           res == parse_and_validate_response(r, Turn, options, doc.round)
           stored(d, opinion) ==
             LET e == [d EXCEPT !.updated = Append(doc.updated, opinion),
                                !.writes = Append(doc.writes, StoreCall(<<doc.round, Turn>>))]
             IN  IF LineRaises(opinion)
                 THEN [e EXCEPT !.pc = "done", !.result = [error |-> "KeyError"]]
                 ELSE e
       IN  doc' = IF RetryCount = 0 /\ SummaryRaises(doc.opinions, doc.round)
                  THEN [doc EXCEPT !.pc = "done", !.result = [error |-> "KeyError"]]
                  ELSE IF res.ok
                  THEN stored(Called("sequential", prompt, prompt, r, res, "accepted"), res.value)
                  ELSE IF RetryCount + 1 = specialist_max_retries
                  THEN [stored(Called("sequential", prompt, prompt, r, res, "exhausted"),
                               FallbackOpinion(doc.opinions[Turn], doc.round))
                          EXCEPT !.exhausted = doc.exhausted \cup {Turn},
                                 !.failed_once = TRUE]
                  ELSE Called("sequential", prompt, prompt, r, res, "open")
  /\ UNCHANGED <<orcVars, det, store>>

\* _start_discussion after a round: _check_consensus, then the next round
\* or _form_final_conclusion
CheckRound ==
  /\ doc.pc \in {"initial", "seq"}
  /\ Turn = doc.n + 1
  /\ LET is_consensus == check_consensus(doc.updated)
     IN  doc' = IF is_consensus \/ doc.round = V6Rounds
                THEN [doc EXCEPT !.pc = "done", !.opinions = doc.updated,
                        !.result = [final_conclusion |->
                                      form_final_conclusion(doc.updated, is_consensus)]]
                ELSE [doc EXCEPT !.pc = "seq", !.round = doc.round + 1,
                        !.opinions = doc.updated, !.updated = <<>>,
                        !.exhausted = {}]
  /\ UNCHANGED <<orcVars, det, store>>

\* run_consultation of MDTeamGPT_6_NewArc_1 after specialist.perform_task:
\* ...get("selected_option", {}).get("key", "") raises on None
Conclude ==
  /\ doc.pc = "done"
  /\ doc' = IF "error" \in DOMAIN doc.result
            THEN [doc EXCEPT !.pc = "returned",
                             !.result = [Consensused_Answer |-> PyNone, Status |-> PyNone]]
            ELSE IF doc.result.final_conclusion.selected_option = PyNone
            THEN [doc EXCEPT !.pc = "raised", !.result = [raised |-> "AttributeError"]]
            ELSE [doc EXCEPT !.pc = "returned",
                    !.result = [Consensused_Answer |->
                                  doc.result.final_conclusion.selected_option,
                                Status |-> doc.result.final_conclusion.status]]
  /\ UNCHANGED <<orcVars, det, store>>

(***************************************************************************)
(* PrimaryCareDoctor.perform_task                                          *)
(***************************************************************************)
APPROVED_SPECIALTIES == {"General Medicine", "Cardiology", "Neurology", "Emergency"}

Entry(name, priority) ==
  [specialist |-> name, priority |-> priority,
   specialist_role_description |-> "d", rationale |-> "r"]

RespList(l) == [t |-> "json_list", l |-> l]

\* the accepted list, and lists the validator rejects: too short, without
\* General Medicine, with it at priority 2, with an unapproved specialty,
\* with a repeated priority, with a gap in the priorities; and two lists of
\* the wrong shape: an entry without "specialist", and strings as entries
PrimaryCareResponses ==
  LET valid == <<Entry("General Medicine", 1), Entry("Cardiology", 2),
                 Entry("Neurology", 3), Entry("Emergency", 4)>>
  IN  {RespText, RespApiError, RespJson([specialists |-> valid]),
       RespList(SubSeq(valid, 1, 3)),
       RespList([valid EXCEPT ![1] = Entry("Cardiology", 1), ![2] = Entry("Emergency", 2),
                              ![4] = Entry("Cardiology", 4)]),
       RespList([valid EXCEPT ![1] = Entry("Cardiology", 1),
                              ![2] = Entry("General Medicine", 2)]),
       RespList([valid EXCEPT ![3] = Entry("Astrology", 3)]),
       RespList([valid EXCEPT ![4] = Entry("Emergency", 3)]),
       RespList([valid EXCEPT ![4] = Entry("Emergency", 7)]),
       RespList([valid EXCEPT ![2] = [priority |-> 2, rationale |-> "r"]]),
       RespList([i \in 1..4 |-> PyStr(<<"Cardiology">>)])}

\* the exception specialist["specialist"] raises on an entry of the list,
\* "" when the entry is an object with that key
IndexRaises(entry) ==
  IF "t" \in DOMAIN entry THEN "TypeError"
  ELSE IF "specialist" \notin DOMAIN entry THEN "KeyError"
  ELSE ""

\* the first entry the validation loop rejects, 0 when it rejects none
FirstBad(l) ==
  LET bad(i) == \/ IndexRaises(l[i]) # ""
                \/ l[i].specialist \notin APPROVED_SPECIALTIES
                \/ \E j \in 1..(i - 1) : l[j].priority = l[i].priority
  IN  IF \E i \in 1..Len(l) : bad(i)
      THEN CHOOSE i \in 1..Len(l) : bad(i) /\ \A j \in 1..(i - 1) : ~bad(j)
      ELSE 0

\* PrimaryCareDoctor._parse_and_validate_response: (parsed_response,
\* is_valid, error_details) as value, ok, violation
primary_care_validate(llm_response) ==
  IF llm_response.t = "text" THEN Rejected(<<"Invalid JSON format">>)
  ELSE IF llm_response.t # "json_list" /\ "specialists" \notin DOMAIN JsonOf(llm_response)
  THEN Rejected(<<"Response must be either a JSON array or object with 'specialists' key">>)
  ELSE LET l == IF llm_response.t = "json_list" THEN llm_response.l
                ELSE llm_response.d.specialists
           gm == {i \in 1..Len(l) : IndexRaises(l[i]) = "" /\ l[i].specialist = "General Medicine"}
           first_gm == CHOOSE i \in gm : \A j \in gm : i <= j
           \* the entries the first loop indexes before it finds General Medicine
           raising == {i \in 1..Len(l) : IndexRaises(l[i]) # "" /\ \A j \in gm : i < j}
           b == FirstBad(l)
       IN  IF Len(l) < 4 \/ Len(l) > 6 THEN Rejected(<<"Expected 4-6 entries, got ", ToString(Len(l))>>)
           ELSE IF raising # {}
                THEN Raised(IndexRaises(l[CHOOSE i \in raising : \A j \in raising : i <= j]))
           ELSE IF gm = {} THEN Rejected(<<"Response  must have General Medicine">>)
           ELSE IF l[first_gm].priority # 1 THEN Rejected(<<"General Medicine's priority must be 1">>)
           ELSE IF b # 0 /\ IndexRaises(l[b]) # "" THEN Raised(IndexRaises(l[b]))
           ELSE IF b # 0 /\ l[b].specialist \notin APPROVED_SPECIALTIES
                THEN Rejected(<<"Invalid specialty: ", l[b].specialist>>)
           ELSE IF b # 0 THEN Rejected(<<"Duplicate priority: ", ToString(l[b].priority)>>)
           ELSE IF {l[i].priority : i \in 1..Len(l)} # 1..Len(l)
                THEN Rejected(<<"Priorities must be consecutive starting from 1">>)
           ELSE Accepted([primary_care_choices |->
                            [i \in 1..Len(l) |->
                               [specialist |-> l[i].specialist,
                                specialist_role_description |->
                                  l[i].specialist_role_description,
                                rationale |-> l[i].rationale]]])

PrimaryCareBase == <<"primary care prompt">>

\* PrimaryCareDoctor._retry_with_feedback: the prompt it issues
retry_with_feedback(original_prompt, feedback) ==
  <<"[ORIGINAL PROMPT]">> \o original_prompt
    \o <<"[PREVIOUS RESPONSE WAS INVALID]">> \o feedback

PcInit == doc = DocStart("primary_care", 0)

\* a loop that tests retry_count <= max_retries without issuing the call
PrimaryCareAfterLate(d, res) ==
  IF "raised" \in DOMAIN res
  THEN [d EXCEPT !.pc = "pc_raised", !.req = "raised", !.result = [raised |-> res.raised]]
  ELSE IF res.ok
  THEN [d EXCEPT !.pc = "pc_returned", !.req = "accepted", !.result = res.value,
                 !.writes = Append(doc.writes, StoreCall(<<"Primary_care_choosed_specialists">>))]
  ELSE IF d.calls - 1 <= primary_care_max_retries
  THEN d
  ELSE [d EXCEPT !.pc = "pc_returned", !.req = "exhausted",
                 !.result = [primary_care_choices |-> <<>>]]

\* what perform_task does after a validation: the validator has stored the
\* accepted list in the pool; a failure after the last retry returns no
\* choices; an exception of the validator leaves perform_task
PrimaryCareAfter(d, res) ==
  IF "raised" \in DOMAIN res
  THEN [d EXCEPT !.pc = "pc_raised", !.req = "raised", !.result = [raised |-> res.raised]]
  ELSE IF res.ok
  THEN [d EXCEPT !.pc = "pc_returned", !.req = "accepted", !.result = res.value,
                 !.writes = Append(doc.writes, StoreCall(<<"Primary_care_choosed_specialists">>))]
  ELSE IF d.calls - 1 < primary_care_max_retries
  THEN d
  ELSE [d EXCEPT !.pc = "pc_returned", !.req = "exhausted",
                 !.result = [primary_care_choices |-> <<>>]]

\* the first call of perform_task, with the prompt of _build_prompt
PrimaryCareFirst ==
  /\ doc.pc = "primary_care"
  /\ doc.req = "none"
  /\ \E r \in PrimaryCareResponses :
       LET res == primary_care_validate(r)
       IN  doc' = PrimaryCareAfter(
                    Called("primary_care", PrimaryCareBase, PrimaryCareBase, r, res, "open"),
                    res)
  /\ UNCHANGED <<orcVars, det, store>>

\* one pass of `while not is_valid and retry_count < self.max_retries`
PrimaryCareRetry ==
  /\ doc.pc = "primary_care"
  /\ doc.req = "open"
  /\ doc.calls - 1 < primary_care_max_retries
  /\ \E r \in PrimaryCareResponses :
       LET res == primary_care_validate(r)
           feedback == IF doc.violation = <<>> THEN <<"Invalid response format">>
                       ELSE doc.violation
       IN  doc' = PrimaryCareAfter(
                    Called("primary_care", PrimaryCareBase,
                           retry_with_feedback(PrimaryCareBase, feedback), r, res, "open"),
                    res)
  /\ UNCHANGED <<orcVars, det, store>>

InitV6 == (SdInit \/ PcInit) /\ OrcIdle /\ det = Idle /\ store = Idle

NextV6 ==
  \/ PrimaryCareFirst
  \/ PrimaryCareRetry
  \/ InitialAttempt
  \/ SequentialAttempt
  \/ CheckRound
  \/ Conclude

SpecV6 == InitV6 /\ [][NextV6]_vars

(***************************************************************************)
(* The same case on a pool whose file can stop being writable: from then   *)
(* on save_to_file raises in every add_statements call.                    *)
(***************************************************************************)
StoreBreaks ==
  /\ store.pc = "ok"
  /\ store' = [store EXCEPT !.pc = "broken"]
  /\ UNCHANGED <<orcVars, det, doc>>

\* SpecialistDoctor(historical_pool, retriever): retriever None, a retriever
\* that finds nothing for the specialty, or one that returns evidence
InitV6Fault ==
  /\ SdInit \/ PcInit
  /\ OrcIdle /\ det = Idle
  /\ \E retriever \in {"none", "empty", "evidence"} :
       store = [pc |-> "ok", retriever |-> retriever]

SpecV6Fault == InitV6Fault /\ [][NextV6 \/ StoreBreaks]_vars

(***************************************************************************)
(* HistoricalSharedPool on its own: add_statements calls with drawn        *)
(* statements on the pool of MDTeamGPT_1 ("v1") and of MDTeamGPT_2_update  *)
(* ("v2"), which also rewrites its file after every call.                  *)
(***************************************************************************)
\* the statements of one call: no key, one key with a list, a map or a
\* plain value, or two keys
PoolStatements ==
  LET keys == {RoundKey(1), RoundKey(2), <<"meta">>}
      values == {List(<<Atom("x")>>), Dict([a |-> Atom("1")]),
                 Dict([a |-> Atom("2"), b |-> Atom("3")]), Atom("s")}
  IN  {<<>>, << <<RoundKey(1), List(<<Atom("x")>>)>>, <<RoundKey(2), Dict([a |-> Atom("1")])>> >>}
        \cup {<< <<k, v>> >> : k \in keys, v \in values}

PoolInit ==
  \E v \in {"v1", "v2"} :
    store = [pc |-> "open", v |-> v, writes |-> 0,
             pool |-> InitialPool(IF v = "v1" THEN "main" ELSE v), current_round |-> 0,
             file |-> <<>>, before |-> <<>>, written |-> <<>>, raised |-> FALSE]

\* one call of add_statements; the pool of MDTeamGPT_1, which reads its
\* keys, is also called with the keys "round 2 extra" and "round x"
PoolWrite ==
  /\ store.pc = "open"
  /\ store.writes < MaxWrites
  /\ \E statements \in PoolStatements \cup
         (IF store.v = "v1"
          THEN {<< <<k, List(<<Atom("x")>>)>> >> : k \in {<<"round", 2, "extra">>, <<"round x">>}}
          ELSE {}) :
       LET r == add_statements_v1([entries |-> store.pool,
                                   current_round |-> store.current_round], statements)
           e == add_statements_v2(store.pool, statements)
       IN  store' = IF store.v = "v1"
                    THEN [store EXCEPT !.writes = @ + 1, !.pool = r.entries,
                                       !.current_round = r.current_round,
                                       !.before = store.pool, !.written = statements,
                                       !.raised = r.raised]
                    ELSE [store EXCEPT !.writes = @ + 1, !.pool = e,
                                       !.file = IF statements = <<>> THEN @ ELSE save_to_file(e),
                                       !.before = store.pool, !.written = statements,
                                       !.raised = FALSE]
  /\ UNCHANGED <<orcVars, det, doc>>

\* clear_pool
PoolClear ==
  /\ store.pc = "open"
  /\ store.writes > 0
  /\ store.writes < MaxWrites
  /\ store' = [store EXCEPT !.writes = @ + 1, !.pool = <<>>, !.current_round = 0,
                            !.before = store.pool, !.written = <<>>, !.raised = FALSE]
  /\ UNCHANGED <<orcVars, det, doc>>

InitPool == PoolInit /\ OrcIdle /\ det = Idle /\ doc = Idle

SpecPool == InitPool /\ [][PoolWrite \/ PoolClear]_vars

(***************************************************************************)
(* ChainOfThoughtReviewer._store_correct_answer and _store_chain_of_thought *)
(* of MDTeamGPT_5_NewArc run by two cases at once.  The json files of      *)
(* vector_db_storage and their .tmp files are named by constants of the    *)
(* code, so the cases work on the same files; store.file is the list each  *)
(* json file holds, store.tmp its temporary file, store.cases what each    *)
(* case holds in existing_data and the file it writes.                     *)
(***************************************************************************)
\* two cases about to store, CorrectKB.json empty or holding one entry
InitKB ==
  /\ \E earlier \in {<<>>, <<0>>} :
       store = [pc |-> "kb",
                file |-> [CorrectKB |-> earlier, ChainKB |-> <<>>],
                tmp |-> [kb \in {"CorrectKB", "ChainKB"} |-> [exists |-> FALSE, data |-> <<>>]],
                cases |-> [c \in 1..2 |-> [pc |-> "check", kb |-> "CorrectKB",
                                          existing_data |-> <<>>]]]
  /\ OrcIdle /\ det = Idle /\ doc = Idle

\* perform_task chooses the file by is_correct; then the check of the parsed
\* review, _load_existing_data and existing_data.append(clean_data)
KbLoad ==
  /\ store.pc = "kb"
  /\ \E c \in DOMAIN store.cases :
       /\ store.cases[c].pc = "check"
       /\ \E is_correct, valid \in BOOLEAN :
            LET kb == IF is_correct THEN "CorrectKB" ELSE "ChainKB"
            IN  store' = IF valid
                         THEN [store EXCEPT !.cases[c].pc = "dump", !.cases[c].kb = kb,
                                 !.cases[c].existing_data = Append(store.file[kb], c)]
                         ELSE [store EXCEPT !.cases[c].pc = "skipped", !.cases[c].kb = kb]
  /\ UNCHANGED <<orcVars, det, doc>>

\* with open(temp_path, "w") as f: json.dump(existing_data, f, indent=2)
KbDump ==
  /\ store.pc = "kb"
  /\ \E c \in DOMAIN store.cases :
       /\ store.cases[c].pc = "dump"
       /\ store' = [store EXCEPT !.cases[c].pc = "replace",
                                 !.tmp[store.cases[c].kb] =
                                    [exists |-> TRUE, data |-> store.cases[c].existing_data]]
  /\ UNCHANGED <<orcVars, det, doc>>

\* os.replace(temp_path, file_path); without the temporary file it raises
\* and the except branch prints the failure
KbReplace ==
  /\ store.pc = "kb"
  /\ \E c \in DOMAIN store.cases :
       LET kb == store.cases[c].kb
       IN  /\ store.cases[c].pc = "replace"
           /\ store' = IF store.tmp[kb].exists
                       THEN [store EXCEPT !.cases[c].pc = "done",
                                          !.file[kb] = store.tmp[kb].data,
                                          !.tmp[kb] = [exists |-> FALSE, data |-> <<>>]]
                       ELSE [store EXCEPT !.cases[c].pc = "failed"]
  /\ UNCHANGED <<orcVars, det, doc>>

SpecKB == InitKB /\ [][KbLoad \/ KbDump \/ KbReplace]_vars

(***************************************************************************)
(* DeepSeekClient.call of MDTeamGPT_2_update ("v2") and of                 *)
(* MDTeamGPT_6_NewArc_1 ("v6"): the loop over the HTTP attempts.  doc.sent *)
(* lists the outcome of every request sent, doc.waits the sleeps as        *)
(* <<attempt, seconds>>, doc.result what the call returned or raised.      *)
(***************************************************************************)
\* min(2 ** attempt, 60)
wait_time(attempt) == IF 2 ^ attempt < 60 THEN 2 ^ attempt ELSE 60

InitApi ==
  /\ \E v \in {"v2", "v6"}, m \in 1..MaxApiRetries :
       doc = [pc |-> "api", v |-> v, max_retries |-> m, attempt |-> 0,
              sent |-> <<>>, waits |-> <<>>, result |-> [kind |-> "running"]]
  /\ OrcIdle /\ det = Idle /\ store = Idle

\* one pass of `for attempt in range(self.max_retries)`: the request is
\* answered with the content, with status 400 and an error about "messages",
\* with another error status, or it times out.  After the last pass the loop
\* of v2 is followed by `raise Exception(...)`, the loop of v6 by the end of
\* the function, which returns None
ApiAttempt ==
  /\ doc.pc = "api"
  /\ doc.result.kind = "running"
  /\ doc.attempt < doc.max_retries
  /\ \E outcome \in {"content", "400 messages", "http error", "timeout"} :
       LET last == doc.attempt = doc.max_retries - 1
           d == [doc EXCEPT !.sent = Append(@, outcome), !.attempt = @ + 1]
           slept == [d EXCEPT !.waits = Append(@, <<doc.attempt, wait_time(doc.attempt)>>)]
       IN  doc' = IF outcome = "content"
                  THEN [d EXCEPT !.result = [kind |-> "returned", type |-> "str",
                                              value |-> "content"]]
                  ELSE IF doc.v = "v2"
                  THEN IF last
                       THEN [d EXCEPT !.result = [kind |-> "raised", error |-> "Exception"]]
                       ELSE slept
                  ELSE IF outcome = "400 messages"
                  THEN IF last
                       THEN [d EXCEPT !.result = [kind |-> "returned", type |-> "NoneType",
                                                   value |-> "None"]]
                       ELSE d
                  ELSE IF last
                  THEN [d EXCEPT !.result = [kind |-> "returned", type |-> "str",
                                              value |-> "api_error"]]
                  ELSE slept
  /\ UNCHANGED <<orcVars, det, store>>

SpecApi == InitApi /\ [][ApiAttempt]_vars

(***************************************************************************)
(* The batch run: main and process_batch_dataset of src/main.py, and       *)
(* process_batch_dataset of MDTeamGPT_6_NewArc_1 called on its own.        *)
(* doc.progress is result/medqa_progress.json; it outlives a run.          *)
(* doc.handled and doc.batches are history: the case numbers whose         *)
(* consultation ended, and the ranges of the batches saved, over all runs. *)
(* An entry of results carries the case number it was made for (the error  *)
(* entry of the code does not), so that the order can be stated.           *)
(***************************************************************************)
\* a resumption that starts at the case saved last
start_case_again(progress) == IF progress.exists THEN progress.last_processed ELSE 1

\* main: start_case, from the progress file when there is one
start_case(progress) == IF progress.exists THEN progress.last_processed + 1 ELSE 1

InitBatch ==
  /\ \E v \in {"main", "v6"}, total \in 1..MaxCases :
       \E b \in IF v = "main" THEN 1..MaxBatch ELSE {1} :
         doc = [pc |-> IF v = "main" THEN "start" ELSE "case", v |-> v,
                total_questions |-> total, batch_size |-> b,
                progress |-> [exists |-> FALSE, last_processed |-> 0, results |-> <<>>],
                all_results |-> <<>>, batch_start |-> 0,
                batch_end |-> IF v = "main" THEN 0 ELSE total,
                q_num |-> 1, results |-> <<>>,
                handled |-> {}, batches |-> <<>>, runs |-> 1, resumed |-> FALSE]
  /\ OrcIdle /\ det = Idle /\ store = Idle

\* main up to its loop: the progress file is read when it exists
MainStart ==
  /\ doc.pc = "start"
  /\ doc' = [doc EXCEPT !.pc = "loop",
                        !.all_results = doc.progress.results,
                        !.batch_start = start_case(doc.progress) - 1,
                        !.resumed = @ \/ doc.progress.exists]
  /\ UNCHANGED <<orcVars, det, store>>

\* for batch_start in range(start_case-1, total_questions, batch_size): the
\* next batch begins, or the loop is over and the progress file is removed
NextBatch ==
  /\ doc.pc \in {"loop", "saved"}
  /\ LET batch_start == IF doc.pc = "saved" THEN doc.batch_start + doc.batch_size
                        ELSE doc.batch_start
         batch_end == IF batch_start + doc.batch_size < doc.total_questions
                      THEN batch_start + doc.batch_size ELSE doc.total_questions
     IN  doc' = IF batch_start < doc.total_questions
                THEN [doc EXCEPT !.pc = "case", !.batch_start = batch_start,
                                 !.batch_end = batch_end, !.q_num = batch_start + 1,
                                 !.results = <<>>]
                ELSE [doc EXCEPT !.pc = "complete", !.batch_start = batch_start,
                                 !.progress = [exists |-> FALSE, last_processed |-> 0,
                                               results |-> <<>>]]
  /\ UNCHANGED <<orcVars, det, store>>

\* process_batch_dataset, one case: the consultation gives a result or
\* raises; src/main.py goes on to the next case, MDTeamGPT_6_NewArc_1
\* appends an error entry
BatchCase ==
  /\ doc.pc = "case"
  /\ doc.q_num <= doc.batch_end
  /\ \E outcome \in {"result", "raises"} :
       doc' = [doc EXCEPT
                 !.results = IF outcome = "result"
                             THEN Append(@, [q |-> doc.q_num, kind |-> "result"])
                             ELSE IF doc.v = "v6"
                             THEN Append(@, [q |-> doc.q_num, kind |-> "error"])
                             ELSE @,
                 !.handled = @ \cup {doc.q_num},
                 !.q_num = @ + 1]
  /\ UNCHANGED <<orcVars, det, store>>

\* process_batch_dataset returns; main extends all_results and writes the
\* progress file
BatchReturn ==
  /\ doc.pc = "case"
  /\ doc.q_num > doc.batch_end
  /\ doc' = IF doc.v = "v6"
            THEN [doc EXCEPT !.pc = "returned"]
            ELSE [doc EXCEPT !.pc = "saved",
                    !.all_results = @ \o doc.results,
                    !.progress = [exists |-> TRUE, last_processed |-> doc.batch_end,
                                  results |-> doc.all_results \o doc.results],
                    !.batches = Append(@, <<doc.batch_start + 1, doc.batch_end>>)]
  /\ UNCHANGED <<orcVars, det, store>>

\* the run ends before its time (an exception main catches, or the process
\* is stopped) and main is started again; only the file is left of the run
Interrupted ==
  /\ doc.v = "main"
  /\ doc.pc \in {"loop", "case", "saved"}
  /\ doc.runs < MaxRuns
  /\ doc' = [doc EXCEPT !.pc = "start", !.runs = @ + 1, !.all_results = <<>>,
                        !.batch_start = 0, !.batch_end = 0, !.q_num = 1,
                        !.results = <<>>]
  /\ UNCHANGED <<orcVars, det, store>>

SpecBatch ==
  InitBatch /\ [][MainStart \/ NextBatch \/ BatchCase \/ BatchReturn \/ Interrupted]_vars

(***************************************************************************)
(* Properties of the consensus checks (SpecDetect)                         *)
(***************************************************************************)
DetDone(v) == det.pc = "done" /\ det.v = v

DetAll == all_choices_of(det.choices)

DetValid == \A i \in 1..Len(det.choices) : DetAll[i] \notin Sentinels

MostFrequent(all_choices) ==
  {c \in {all_choices[i] : i \in 1..Len(all_choices)} :
     \A d \in {all_choices[i] : i \in 1..Len(all_choices)} :
       Count(all_choices, c) >= Count(all_choices, d)}

\* C2: in MDTeamGPT_2_update and MDTeamGPT_5_NewArc, when the final permitted
\* round of real options ends without exact or similarity convergence, a
\* majority vote over that round's choices is taken and its winner is the
\* final option.
C2_FinalRoundMajority ==
  ( /\ (DetDone("v2") \/ DetDone("v5"))
    /\ det.round = det.max
    /\ DetValid
    /\ det.out.method \notin {"exact", "similarity"} )
  => ( /\ det.out.method = "majority"
       /\ det.out.final \in MostFrequent(DetAll) )

\* C3: in src/main.py, MDTeamGPT_2_update and MDTeamGPT_6_NewArc_1, whenever
\* all opinions of a round select the identical option, exact consensus on
\* that option is declared, in any round and for any number >= 1 of opinions.
C3_IdenticalIsExact ==
  /\ ( /\ (DetDone("main") \/ DetDone("v2"))
       /\ DetValid
       /\ \A i \in 1..Len(det.choices) : det.choices[i] = det.choices[1] )
     => ( /\ det.out.brk
          /\ det.out.method = "exact"
          /\ det.out.final = det.choices[1] )
  /\ ( /\ DetDone("v6")
       /\ Len(det.opinions) >= 1
       /\ \A i \in 1..Len(det.opinions) : det.opinions[i] = det.opinions[1] )
     => ( /\ det.consensus
          /\ det.conclusion.consensus
          /\ det.conclusion.selected_option = det.opinions[1].selected_option )

\* three identical real options in round 1 of 2 were declared an exact consensus
C3_Witness ==
  /\ DetDone("v2")
  /\ det.round = 1
  /\ det.max = 2
  /\ det.choices = <<C_A, C_A, C_A>>
  /\ det.out.method = "exact"

\* C4: if any opinion of a round carries an empty or sentinel choice, exact
\* consensus is not declared for that round, even when all opinions carry
\* the same sentinel.
C4_SentinelBlocksExact ==
  ( /\ (DetDone("main") \/ DetDone("v2") \/ DetDone("v5"))
    /\ \E i \in 1..Len(det.choices) : DetAll[i] \in Sentinels )
  => det.out.method # "exact"

(***************************************************************************)
(* Properties of run_consultation (Spec)                                   *)
(***************************************************************************)
\* C1: a run of run_consultation that has ended has returned an outcome
\* whose final option is set; it has not let an exception escape.
C1_EndsWithOutcome ==
  pc \in {"returned", "raised"}
  => ( /\ result.kind = "returned"
       /\ result.final_decision # None )

\* C7: if every specialist failed in the round that was checked last, that
\* round is not counted as converged and no option wins; when the run is
\* over it has ended without raising, with the no-valid-opinions outcome.
C7_AllFailedNoWinner ==
  ( /\ pc \in {"ethics", "chain", "returned", "raised"}
    /\ failed = 1..nspec )
  => ( /\ method \notin {"exact", "similarity", "majority"}
       /\ final_opinion \in {None, S_NOVALID}
       /\ pc # "raised" )


(***************************************************************************)
(* Properties of the structured requests and the discussion (SpecV6)       *)
(***************************************************************************)
\* C5: the opinion recorded for a specialist whose request exhausted its
\* retries in this round is not one of the case's options, and a round with
\* such a specialist is not concluded as a consensus.
C5_ExhaustedIsSentinel ==
  /\ \A i \in doc.exhausted :
       ~is_valid_option(doc.updated[i].selected_option, options)
  /\ ( /\ doc.pc = "done"
       /\ doc.exhausted # {}
       /\ "final_conclusion" \in DOMAIN doc.result )
     => ~doc.result.final_conclusion.consensus

\* C6: when a specialist's request has failed in some round, perform_task
\* still ends with a final conclusion, never with the error result.
C6_FailureNeverAborts ==
  (doc.failed_once /\ doc.pc = "done") => "final_conclusion" \in DOMAIN doc.result

\* C8: the selected_option of every opinion a specialist validator accepted
\* equals one of the case's options by key and value, and a response whose
\* option matches a key only is rejected.
C8_AcceptedOptionListed ==
  /\ (doc.kind \in {"initial", "sequential"} /\ doc.req = "accepted")
     => is_valid_option(doc.parsed.selected_option, options)
  /\ (doc.kind \in {"initial", "sequential"} /\ doc.resp \in {R_KEYONLY, R_DEFEND_KEYONLY})
     => doc.req # "accepted"

\* the number of generation calls a request can make
CallLimit ==
  IF doc.kind = "primary_care" THEN primary_care_max_retries + 1
  ELSE specialist_max_retries

ConfiguredRetries ==
  IF doc.kind = "primary_care" THEN primary_care_max_retries
  ELSE specialist_max_retries

C10_RetryListsViolation ==
  (doc.kind # "none" /\ doc.calls >= 2)
  => ( /\ doc.prompt # doc.base
       /\ Contains(doc.prompt, doc.base)
       /\ Contains(doc.prompt, doc.prev_violation) )


(***************************************************************************)
(* Properties of the pool written on its own (SpecPool)                    *)
(***************************************************************************)
PoolValue(entries, k) == entries[PoolIndex(entries, k)][2]

\* C11: a value written to a key the pool already holds is merged by kind:
\* a list onto a list is the concatenation, a map onto a map the shallow
\* merge in which the new keys win, and anything else is the new value.
C11_MergeByKind ==
  (store.pc = "open" /\ ~store.raised)
  => \A j \in 1..Len(store.written) :
       LET k == store.written[j][1]
           new == store.written[j][2]
           old == PoolValue(store.before, k)
       IN  PoolIndex(store.before, k) # 0
           => PoolValue(store.pool, k) =
                IF old.t = "list" /\ new.t = "list" THEN List(old.l \o new.l)
                ELSE IF old.t = "dict" /\ new.t = "dict" THEN Dict(DictMerge(old.d, new.d))
                ELSE new

(***************************************************************************)
(* Properties of the store as run_consultation writes it (Spec)            *)
(***************************************************************************)
\* C12: the all-rounds read returns the rounds in strictly increasing round
\* order, and no step changes the stored content of a round earlier than
\* the one being deliberated.
C12_RoundsKeptInOrder ==
  /\ [](\A i, j \in 1..Len(get_rounds_data(pool)) :
          i < j => get_rounds_data(pool)[i][1] < get_rounds_data(pool)[j][1])
  /\ [][\A n \in 1..MaxRounds :
          (n < round_num /\ PoolIndex(pool, RoundKey(n)) # 0)
          => /\ PoolIndex(pool', RoundKey(n)) # 0
             /\ PoolValue(pool', RoundKey(n)) = PoolValue(pool, RoundKey(n))]_vars

\* the opinions of round 2 have been appended to a pool that holds round 1
C12_Witness ==
  /\ round_num = 2
  /\ pc = "check"
  /\ Len(get_rounds_data(pool)) = 2
  /\ get_rounds_data(pool)[1][1] = 1
  /\ get_rounds_data(pool)[2][1] = 2


\* the opinions the chain-of-thought reviewer of the running version quotes
\* from the history run_consultation hands to it
Reviewed(is_correct) ==
  IF version = "v5" THEN history_retrieve_v5(get_all_statements(pool), is_correct)
  ELSE history_retrieve_v2(get_all_statements(pool), is_correct)

\* the part of C13 about the reads of the pool: the per-round read and the
\* rounds of the pool hold the opinions of the round as soon as they are stored
RoundReadsHoldOpinions ==
  (version \in {"v2", "v5"} /\ pc \in {"lead", "check", "ethics"})
  => /\ get_round_statements(pool, round_num).specialist_opinions = specialist_opinions
     /\ \E i \in 1..Len(get_rounds_data(pool)) : get_rounds_data(pool)[i][1] = round_num
     /\ PoolIndex(get_all_statements(pool)[1][2], RoundKey(round_num)) # 0

Votes == SelectSeq(DetAll, LAMBDA c : c # S_EMPTY)

\* C14: the final-round majority vote returns a choice with the highest
\* count, among the choices tied for the highest count the one that comes
\* first in the order of the participants, and the same choices always give
\* the same winner.
C14_MajorityFirstSeen ==
  (det.pc = "done" /\ det.v \in Versions /\ det.out.method = "majority")
  => /\ det.out.final \in MostFrequent(Votes)
     /\ \A c \in MostFrequent(Votes) :
          FirstIndex(Votes, det.out.final) <= FirstIndex(Votes, c)
     /\ \A o \in Check(det.v, DetAll, det.round, det.max, None, None) :
          o.final = det.out.final

\* a vote with two choices tied for the highest count, the winner not being
\* the last of them
C14_Witness ==
  /\ det.pc = "done" /\ det.v \in Versions /\ det.out.method = "majority"
  /\ Cardinality(MostFrequent(Votes)) = 2
  /\ det.out.final # Votes[Len(Votes)]
  /\ Votes[Len(Votes)] \in MostFrequent(Votes)


\* the pairwise similarities of the values of the drawn choices
DetScores == PairScores(values_of(DetAll), 1, 2)

C15_BelowWitness ==
  /\ det.pc = "done" /\ det.v \in {"v2", "v5"} /\ det.out.method # "similarity"
  /\ Len(DetAll) >= 2 /\ DetAll[1] # DetAll[2]
  /\ \A i \in 1..Len(DetAll) : extract_key(DetAll[i]) = <<"A">>


\* C16: when similarity consensus is declared, the winner is the most
\* frequent exact choice of the round, and among equally frequent choices the
\* one that comes first in the order of the participants.
C16_SimilarityWinnerFirstSeen ==
  (det.pc = "done" /\ det.v \in {"v2", "v5"} /\ det.out.method = "similarity")
  => /\ det.out.final \in MostFrequent(DetAll)
     /\ \A c \in MostFrequent(DetAll) :
          FirstIndex(DetAll, det.out.final) <= FirstIndex(DetAll, c)


(***************************************************************************)
(* Properties of the case on a pool that can fail (SpecV6Fault)            *)
(***************************************************************************)
\* an add_statements call of the case has raised
WriteRaised == \E i \in 1..Len(doc.writes) : doc.writes[i].raised

\* C17: once an append of an opinion to the store has raised, the case ends
\* with an error: the deliberation never goes on to a consensus check that
\* yields a final conclusion.
C17_FailedWriteAborts ==
  (WriteRaised /\ doc.pc = "done") => "final_conclusion" \notin DOMAIN doc.result


(***************************************************************************)
(* Properties of the validators (SpecV6)                                   *)
(***************************************************************************)
\* C18: the response validators never raise: on unparsable text and on JSON
\* of the wrong shape they return the invalid result, so no request ends with
\* an exception of its validator.
C18_ValidatorsNeverRaise == doc.req # "raised"


\* C19: in MDTeamGPT_2_update and MDTeamGPT_5_NewArc the key of round n is
\* in the pool only once every specialist of the round has given an opinion,
\* and it holds what that one write put there, the opinions of the round:
\* no later write to the key adds to it or changes it.
C19_RoundWrittenOnce ==
  version \in {"v2", "v5"}
  => \A n \in 1..MaxRounds :
       PoolIndex(pool, RoundKey(n)) # 0
       => /\ n <= round_num
          /\ n = round_num => Len(specialist_opinions) = nspec
          /\ DOMAIN PoolValue(pool, RoundKey(n)).d = {"specialist_opinions"}
          /\ (n = round_num /\ pc # "collect")
             => PoolValue(pool, RoundKey(n)).d.specialist_opinions = specialist_opinions


(***************************************************************************)
(* Properties of the history given to the specialists (SpecLong)           *)
(***************************************************************************)
\* C20: in every round n > 1 of MDTeamGPT_5_NewArc the previous-round
\* material given to the specialists is the opinions of round n - 1, those of
\* all specialists, and never those of an earlier round.
C20_PreviousRoundIsLast ==
  (version = "v5" /\ pc = "collect" /\ round_num > 1)
  => lastround_history.specialist_opinions
       = get_round_statements(pool, round_num - 1).specialist_opinions


(***************************************************************************)
(* Properties of the order of the requests of a round                      *)
(***************************************************************************)
\* C21: in a round n > 1 the prompt of the i-th specialist is built after the
\* opinion of specialist i - 1 and contains the opinions of specialists
\* 1..i-1 of that round; so in MDTeamGPT_5_NewArc what the next specialist is
\* given changes whenever a specialist of the round has answered.
C21_PromptFollowsRound ==
  [][(/\ version = "v5" /\ round_num > 1 /\ pc = "collect"
      /\ Len(specialist_opinions') = Len(specialist_opinions) + 1
      /\ Len(specialist_opinions') < nspec)
     => perform_task_args' # perform_task_args]_vars


\* C22: in round 1 of MDTeamGPT_6_NewArc_1 the specialists are asked in the
\* order of the assignment, and the prompt a specialist is sent is made of
\* its own assignment and the retry note only: it is the same whatever the
\* other specialists answered in round 1.
C22_InitialPromptIndependent ==
  (doc.pc = "initial" /\ doc.kind = "initial")
  => LET asked == IF doc.req = "open" THEN Len(doc.updated) + 1 ELSE Len(doc.updated)
     IN  /\ doc.base = <<"initial opinion prompt", ToString(asked)>>
         /\ doc.prompt = IF doc.calls > 1 THEN doc.base \o RetryNote ELSE doc.base

\* the second specialist is being asked after the first one's opinion was kept
C22_Witness ==
  /\ doc.pc = "initial" /\ doc.kind = "initial" /\ doc.req = "open"
  /\ Len(doc.updated) = 1
  /\ doc.updated[1].selected_option = O6_B


\* C23: every opinion of a round n > 1 that _conduct_sequential_discussion_round
\* keeps and puts into the summary of the round has decision_type DEFEND with
\* the strengths of the own position and the weaknesses of the others, or
\* ADJUST with the weaknesses of the old position and the new insights.
C23_KeptOpinionsJustified ==
  doc.pc = "seq"
  => \A i \in 1..Len(doc.updated) :
       LET opinion == doc.updated[i]
       IN  \/ /\ opinion.decision_type = "DEFEND"
              /\ {"your_position_strengths", "others_weaknesses"} \subseteq DOMAIN opinion
           \/ /\ opinion.decision_type = "ADJUST"
              /\ {"old_position_weaknesses", "new_insights"} \subseteq DOMAIN opinion


\* C24: the rounds a case collects are numbered 1, 2, ..., k, one after the
\* other, with k <= max_rounds; an opinion is requested only in a round
\* 1..max_rounds and never once a round has declared the consensus.
C24_RoundsBounded ==
  [][/\ round_num' \in {round_num, round_num + 1}
     /\ round_num' <= max_rounds
     /\ Len(get_rounds_data(pool')) <= max_rounds
     /\ \A i \in 1..Len(get_rounds_data(pool')) : get_rounds_data(pool')[i][1] = i
     /\ Len(specialist_opinions') > Len(specialist_opinions)
        => /\ method \notin {"exact", "similarity", "majority"}
           /\ round_num \in 1..max_rounds]_vars

\* the consensus was declared in round 1 of two, and the case has returned
C24_Witness ==
  /\ pc = "returned"
  /\ max_rounds = 2
  /\ round_num = 1
  /\ method \in {"exact", "similarity"}
  /\ Len(get_rounds_data(pool)) = 1


\* the request of a specialist has so far got the answer r from every call
OnlyAnswered(r) ==
  /\ doc.kind \in {"initial", "sequential"}
  /\ doc.same
  /\ doc.resp = r

\* C25: a generation call that ends in an API error (a timeout included)
\* uses up one attempt of the request just as an answer that fails the
\* validation does: a request that gets nothing else is open for its first
\* four calls and stops, exhausted, with the fifth.
C25_ApiErrorUsesAttempt ==
  \A r \in {RespApiError, RespText} :
    OnlyAnswered(r)
    => /\ doc.calls \in 1..specialist_max_retries
       /\ doc.req = IF doc.calls = specialist_max_retries THEN "exhausted" ELSE "open"

\* five API errors in a row have ended the request of a specialist
C25_Witness ==
  /\ OnlyAnswered(RespApiError)
  /\ doc.req = "exhausted"
  /\ doc.calls = specialist_max_retries


\* C26: the outcome run_consultation returns reports the number of rounds
\* used, which is the number of the round in which the loop ended.
C26_RoundsUsedReported ==
  pc = "returned"
  => /\ "rounds" \in DOMAIN result
     /\ result.rounds = round_num


\* C27: a structured request (prompt, validation, retries) writes nothing to
\* the historical pool: no call of the request of PrimaryCareDoctor, accepted
\* or not, adds an add_statements call to those of the case.
C27_RequestWritesNothing ==
  [][doc.pc = "primary_care" => doc'.writes = doc.writes]_vars


(***************************************************************************)
(* Properties of the knowledge base written by two cases (SpecKB)          *)
(***************************************************************************)
\* C28: two cases deliberated at the same time do not touch each other's
\* state, so no record one of them appends is lost or overwritten because of
\* the other: once both have gone through the storing of their review, the
\* knowledge-base file of each case whose review was valid holds its entry.
C28_NoRecordLost ==
  (\A c \in DOMAIN store.cases : store.cases[c].pc \in {"done", "failed", "skipped"})
  => \A c \in DOMAIN store.cases :
       store.cases[c].pc # "skipped"
       => \E i \in 1..Len(store.file[store.cases[c].kb]) :
            store.file[store.cases[c].kb][i] = c


(***************************************************************************)
(* Properties of the structured requests (SpecV6), continued               *)
(***************************************************************************)
\* the opinions the discussion holds last: those of the running round, or
\* of the round before when the running one has none yet
KeptOpinions == IF doc.updated # <<>> THEN doc.updated ELSE doc.opinions

\* C29: the first attempt of a structured request sends the base prompt as
\* it is; the request ends with the first attempt whose response passes the
\* validation, its result is the value of that attempt, and the next
\* generation call is the first attempt of another request.
C29_StopsAtFirstValid ==
  /\ [](/\ doc.calls = 1 => doc.prompt = doc.base
        /\ doc.parsed # PyNone => doc.req = "accepted"
        /\ doc.req = "accepted"
           => IF doc.kind = "primary_care" THEN doc.result = doc.parsed
              ELSE KeptOpinions[Len(KeptOpinions)] = doc.parsed)
  /\ [][(doc.req = "accepted" /\ (doc'.req = "open" \/ doc'.writes # doc.writes))
        => (doc'.calls = 1 /\ doc'.base # doc.base)]_vars

\* the second attempt of a specialist passed the validation and ended the
\* request, after a first attempt that had sent the base prompt and failed
C29_Witness ==
  /\ doc.kind = "initial"
  /\ doc.req = "accepted"
  /\ doc.calls = 2
  /\ doc.prompt = doc.base \o RetryNote
  /\ doc.parsed = doc.updated[Len(doc.updated)]


\* C30: when the retrieval gives a specialist no evidence, because it finds
\* nothing or because no retriever is configured, the opinions are still
\* acquired and validated and the consensus check still runs: a discussion
\* that ends in round 1 ends with a final conclusion.
C30_NoEvidenceStillConcludes ==
  (doc.pc = "done" /\ doc.round = 1 /\ doc.n > 0
     /\ store.retriever \in {"none", "empty"})
  => "final_conclusion" \in DOMAIN doc.result


C32_BackoffBetweenFailures ==
  doc.pc = "api"
  => /\ Len(doc.sent) <= doc.max_retries
     /\ \A i \in 1..Len(doc.waits) :
          /\ doc.waits[i][2] = wait_time(doc.waits[i][1])
          /\ doc.waits[i][2] <= 60
          /\ i > 1 => doc.waits[i - 1][2] <= doc.waits[i][2]
          /\ doc.waits[i][1] < doc.max_retries - 1
     /\ \A a \in 0..(Len(doc.sent) - 1) :
          (doc.sent[a + 1] # "content" /\ a < doc.max_retries - 1)
          => \E i \in 1..Len(doc.waits) : doc.waits[i][1] = a


\* C34: DeepSeekClient.call of MDTeamGPT_6_NewArc_1 always returns a string,
\* the content or the JSON error object with api_error, after at most
\* max_retries requests, whatever the requests are answered with.
C34_CallReturnsString ==
  (doc.pc = "api" /\ doc.v = "v6" /\ doc.result.kind # "running")
  => /\ doc.result.kind = "returned"
     /\ doc.result.type = "str"
     /\ doc.result.value \in {"content", "api_error"}
     /\ Len(doc.sent) <= doc.max_retries

(***************************************************************************)
(* Properties of the orchestrators (Spec), continued                       *)
(***************************************************************************)
\* C33: the option the majority vote of the final round chooses is a real
\* choice: empty choices and the sentinels of a failed opinion are not
\* counted as votes and never win.
C33_MajorityIsRealChoice ==
  method = "majority" => (final_opinion # S_EMPTY /\ final_opinion \notin Sentinels)


(***************************************************************************)
(* Properties of the specialists' discussion (SpecV6), continued           *)
(***************************************************************************)
\* C35: when primary care assigned no participant, the discussion ends with
\* the final status "no_opinions" and no selected option, and the case
\* returns a result and raises nothing.
C35_NoParticipantsNoOpinions ==
  (doc.pc \in {"done", "returned", "raised"} /\ doc.n = 0)
  => /\ doc.pc # "raised"
     /\ doc.pc = "done"
        => /\ "final_conclusion" \in DOMAIN doc.result
           /\ doc.result.final_conclusion.status = "no_opinions"
           /\ doc.result.final_conclusion.selected_option = PyNone


(***************************************************************************)
(* Properties of the consensus checks (SpecDetect), continued              *)
(***************************************************************************)
\* C36: when the specialists' discussion reports consensus, the options of
\* all participants of the round have one normalized form, the key trimmed
\* and upper-cased and the value trimmed, and the selected_option reported
\* is the option of the first participant as it was given; when it reports
\* no consensus, selected_option is None.
C36_ConsensusIsOneNormalForm ==
  (det.pc = "done" /\ det.v = "v6")
  => IF det.conclusion.consensus
     THEN /\ det.opinions # <<>>
          /\ \A i, j \in 1..Len(det.opinions) :
               /\ Upper(StripWs(det.opinions[i].selected_option.key))
                    = Upper(StripWs(det.opinions[j].selected_option.key))
               /\ StripWs(det.opinions[i].selected_option.value)
                    = StripWs(det.opinions[j].selected_option.value)
          /\ det.conclusion.selected_option = det.opinions[1].selected_option
     ELSE det.conclusion.selected_option = PyNone

\* consensus of participants whose options differ as written
C36_Witness ==
  /\ det.pc = "done"
  /\ det.v = "v6"
  /\ det.conclusion.consensus
  /\ Len(det.opinions) >= 2
  /\ det.opinions[1].selected_option # det.opinions[Len(det.opinions)].selected_option
  /\ det.conclusion.selected_option = det.opinions[1].selected_option


(***************************************************************************)
(* Properties of the batch run (SpecBatch)                                 *)
(***************************************************************************)
\* C37: process_batch_dataset returns one entry for every case it was asked
\* for, in the order asked, whether the consultation of a case gave a
\* result or raised.
C37_OneEntryPerCase ==
  doc.pc \in {"saved", "returned"}
  => /\ Len(doc.results) = doc.batch_end - doc.batch_start
     /\ \A i \in 1..Len(doc.results) : doc.results[i].q = doc.batch_start + i

C39_BadKeyRaises ==
  [][(store.pc = "open" /\ store.v = "v1" /\ store'.written # <<>>)
     => LET k == store'.written[1][1]
            numbers == {store'.pool[i][1][2] :
                          i \in {j \in 1..Len(store'.pool) : Len(store'.pool[j][1]) >= 2}}
        IN  IF Len(k) = 2 /\ k[1] = "round"
            THEN /\ ~store'.raised
                 /\ store'.current_round >= store.current_round
                 /\ store'.current_round \in numbers
                 /\ \A n \in numbers : n <= store'.current_round
            ELSE /\ store'.raised
                 /\ store'.pool = store.pool
                 /\ store'.current_round = store.current_round]_vars

=============================================================================
